---- MODULE Spec2Model ----
(***************************************************************************)
(* radixal::digits -- DigitsIterator<T>: the digits of an unsigned number  *)
(* in a given radix, iterated from both ends (src/src/digits.rs).          *)
(*                                                                         *)
(* T is modelled as the unsigned type whose values are 0..MaxT.  One       *)
(* behaviour is one call of DigitsIterator::new(number, radix) followed by *)
(* any sequence of calls on the iterator it returns.                       *)
(***************************************************************************)
EXTENDS Integers, Sequences, FiniteSets, TLC

\* T::MAX of the unsigned type the iterator is instantiated with.
MaxT == 127
\* How many extraction calls returning None a behaviour follows.
MaxNone == 2
\* How many consecutive size_hint() queries a behaviour follows.
MaxQueries == 2

T == 0..MaxT

\* Option<_>: None is the empty tuple, Some(x) the one-element tuple.
None == <<>>
Some(x) == <<x>>

\* The unchecked `*` and `+` of T (digits.rs:48, :63): the mathematical result
\* when it fits; otherwise the build decides (wrap in release), which the
\* overflow flag records.
Wrap(x) == x % (MaxT + 1)
Overflows(x) == x > MaxT

\* num_traits CheckedMul / CheckedAdd as used at digits.rs:72.
checked_mul(a, b) == IF a * b > MaxT THEN None ELSE Some(a * b)
checked_add(a, b) == IF a + b > MaxT THEN None ELSE Some(a + b)

\* Mutant of mul_add: wrapping instead of checked arithmetic.
mul_add_wrapping(s, radix, digit) == Some(Wrap(s * radix + digit))

\* Option::and_then applied to the closure of digits.rs:72.
mul_add(s, radix, digit) ==
    LET m == checked_mul(s, radix)
    IN  IF m = None THEN None ELSE checked_add(m[1], digit)

VARIABLES
    number,     \* argument `number` of new()
    radix,      \* argument `radix` of new()
    pc,         \* "new" | "loop" | "err" | "iter" | "consumed"
    len,        \* local `len` of new()
    splitter,   \* local `splitter` of new()
    n,          \* local `n` of new()
    result,     \* what new() returned: "pending" | "Ok" | "Radix0" | "Radix1"
    it,         \* the DigitsIterator (NoIter until new() returns Ok)
    fresh,      \* history: the iterator exactly as new() returned it
    front,      \* history: digits returned by next(), in call order
    back,       \* history: digits returned by next_back(), in call order
    lastOp,     \* history: the last method called
    ret,        \* history: what the last method returned
    nones,      \* history: extraction calls that returned None
    queries,    \* history: size_hint() calls since the last extraction
    ovf         \* history: an unchecked `*` or `+` exceeded MaxT

vars == <<number, radix, pc, len, splitter, n, result, it, fresh, front, back,
          lastOp, ret, nones, queries, ovf>>

NoIter == [current |-> 0, radix |-> 0, splitter |-> 0, len |-> 0]

Init ==
    /\ number \in T
    /\ radix \in T
    /\ pc = "new"
    /\ len = 0
    /\ splitter = 0
    /\ n = 0
    /\ result = "pending"
    /\ it = NoIter
    /\ fresh = NoIter
    /\ front = <<>>
    /\ back = <<>>
    /\ lastOp = "none"
    /\ ret = None
    /\ nones = 0
    /\ queries = 0
    /\ ovf = FALSE

(***************************************************************************)
(* DigitsIterator::new, digits.rs:35-58                                    *)
(***************************************************************************)

\* Mutant of radix_check: the two error values swapped.
radix_check_swapped(r) ==
    IF r = 0 THEN "Radix1"
    ELSE IF r = 1 THEN "Radix0"
    ELSE "Ok"

\* digits.rs:36-40: the tag of the error returned, or "Ok" to go on.
radix_check(r) ==
    IF r = 0 THEN "Radix0"
    ELSE IF r = 1 THEN "Radix1"
    ELSE "Ok"

\* digits.rs:36-44: validate the radix, then initialise the locals.
NewEntry ==
    /\ pc = "new"
    /\ lastOp' = "new"
    /\ IF radix_check(radix) # "Ok"
       THEN /\ pc' = "err"
            /\ result' = radix_check(radix)
            /\ UNCHANGED <<len, splitter, n>>
       ELSE /\ pc' = "loop"
            /\ len' = 1
            /\ splitter' = 1
            /\ n' = number
            /\ UNCHANGED result
    /\ UNCHANGED <<number, radix, it, fresh, front, back, ret, nones, queries, ovf>>

\* Mutant of loop_cond: `n > 0`, the loop of a plain digit count.
loop_cond_positive(m, r) == m > 0

\* Mutant of loop_cond: `n > radix`.
loop_cond_gt(m, r) == m > r

\* digits.rs:46: the loop condition.
loop_cond(m, r) == m >= r

\* digits.rs:46-50: one iteration of the while loop.
NewLoop ==
    /\ pc = "loop"
    /\ loop_cond(n, radix)
    /\ len' = len + 1
    /\ splitter' = Wrap(splitter * radix)
    /\ ovf' = (ovf \/ Overflows(splitter * radix))
    /\ n' = n \div radix
    /\ UNCHANGED <<number, radix, pc, result, it, fresh, front, back, lastOp, ret,
                   nones, queries>>

\* digits.rs:52-57: the loop is left and the iterator returned.
NewReturn ==
    /\ pc = "loop"
    /\ ~loop_cond(n, radix)
    /\ it' = [current |-> number, radix |-> radix, splitter |-> splitter, len |-> len]
    /\ fresh' = it'
    /\ result' = "Ok"
    /\ pc' = "iter"
    /\ UNCHANGED <<number, radix, len, splitter, n, front, back, lastOp, ret, nones,
                   queries, ovf>>

(***************************************************************************)
(* Iterator / DoubleEndedIterator, digits.rs:80-120                        *)
(***************************************************************************)

\* Mutant of next: `current` is not reduced by the digit taken.
next_keep_current(self) ==
    IF self.len = 0
    THEN [item |-> None, self |-> self]
    ELSE [item |-> Some(self.current \div self.splitter),
          self |-> [current  |-> self.current,
                    radix    |-> self.radix,
                    splitter |-> self.splitter \div self.radix,
                    len      |-> self.len - 1]]

\* Mutant of next: exhaustion tested as `len <= 1`.
next_early_none(self) ==
    IF self.len <= 1
    THEN [item |-> None, self |-> self]
    ELSE [item |-> Some(self.current \div self.splitter),
          self |-> [current  |-> self.current % self.splitter,
                    radix    |-> self.radix,
                    splitter |-> self.splitter \div self.radix,
                    len      |-> self.len - 1]]

\* digits.rs:80-90
next(self) ==
    IF self.len = 0
    THEN [item |-> None, self |-> self]
    ELSE LET digit == self.current \div self.splitter
         IN  [item |-> Some(digit),
              self |-> [current  |-> self.current % self.splitter,
                        radix    |-> self.radix,
                        splitter |-> self.splitter \div self.radix,
                        len      |-> self.len - 1]]

\* Mutant of next_back: `current` divided by `splitter` instead of `radix`.
next_back_div_splitter(self) ==
    IF self.len = 0
    THEN [item |-> None, self |-> self]
    ELSE [item |-> Some(self.current % self.radix),
          self |-> [current  |-> self.current \div self.splitter,
                    radix    |-> self.radix,
                    splitter |-> self.splitter \div self.radix,
                    len      |-> self.len - 1]]

\* Mutant of next_back: `splitter` is left as it was.
next_back_keep_splitter(self) ==
    IF self.len = 0
    THEN [item |-> None, self |-> self]
    ELSE [item |-> Some(self.current % self.radix),
          self |-> [current  |-> self.current \div self.radix,
                    radix    |-> self.radix,
                    splitter |-> self.splitter,
                    len      |-> self.len - 1]]

\* Mutant of next_back: `splitter % radix` instead of `splitter / radix`.
next_back_mod_splitter(self) ==
    IF self.len = 0
    THEN [item |-> None, self |-> self]
    ELSE [item |-> Some(self.current % self.radix),
          self |-> [current  |-> self.current \div self.radix,
                    radix    |-> self.radix,
                    splitter |-> self.splitter % self.radix,
                    len      |-> self.len - 1]]

\* Mutant of next_back: `len` is not decremented.
next_back_keep_len(self) ==
    IF self.len = 0
    THEN [item |-> None, self |-> self]
    ELSE [item |-> Some(self.current % self.radix),
          self |-> [current  |-> self.current \div self.radix,
                    radix    |-> self.radix,
                    splitter |-> self.splitter \div self.radix,
                    len      |-> self.len]]

\* Mutant of next_back: the exhausted branch resets `splitter`.
next_back_reset(self) ==
    IF self.len = 0
    THEN [item |-> None, self |-> [self EXCEPT !.splitter = 1]]
    ELSE [item |-> Some(self.current % self.radix),
          self |-> [current  |-> self.current \div self.radix,
                    radix    |-> self.radix,
                    splitter |-> self.splitter \div self.radix,
                    len      |-> self.len - 1]]

\* digits.rs:110-120
next_back(self) ==
    IF self.len = 0
    THEN [item |-> None, self |-> self]
    ELSE LET digit == self.current % self.radix
         IN  [item |-> Some(digit),
              self |-> [current  |-> self.current \div self.radix,
                        radix    |-> self.radix,
                        splitter |-> self.splitter \div self.radix,
                        len      |-> self.len - 1]]

\* Mutant of size_hint: the lower bound of the default implementation.
size_hint_default_lower(self) == <<0, Some(self.len)>>

\* digits.rs:92-94
size_hint(self) == <<self.len, Some(self.len)>>

\* Mutant of count: one less than `len`.
count_less_one(self) == IF self.len = 0 THEN 0 ELSE self.len - 1

\* digits.rs:96-98
count(self) == self.len

\* Mutant of last: calls next() instead of next_back().
last_via_next(self) == next(self).item

\* digits.rs:100-102
last(self) == next_back(self).item

\* A call of next() on the iterator.
CallNext ==
    /\ pc = "iter"
    /\ LET r == next(it)
       IN  /\ r.item = None => nones < MaxNone
           /\ it' = r.self
           /\ ret' = r.item
           /\ front' = IF r.item = None THEN front ELSE Append(front, r.item[1])
           /\ nones' = IF r.item = None THEN nones + 1 ELSE nones
    /\ lastOp' = "next"
    /\ queries' = 0
    /\ UNCHANGED <<number, radix, pc, len, splitter, n, result, fresh, back, ovf>>

\* A call of next_back() on the iterator.
CallNextBack ==
    /\ pc = "iter"
    /\ LET r == next_back(it)
       IN  /\ r.item = None => nones < MaxNone
           /\ it' = r.self
           /\ ret' = r.item
           /\ back' = IF r.item = None THEN back ELSE Append(back, r.item[1])
           /\ nones' = IF r.item = None THEN nones + 1 ELSE nones
    /\ lastOp' = "next_back"
    /\ queries' = 0
    /\ UNCHANGED <<number, radix, pc, len, splitter, n, result, fresh, front, ovf>>

\* A call of size_hint() (ExactSizeIterator::len() reads it): `&self`.
CallSizeHint ==
    /\ pc = "iter"
    /\ queries < MaxQueries
    /\ ret' = size_hint(it)
    /\ lastOp' = "size_hint"
    /\ queries' = queries + 1
    /\ UNCHANGED <<number, radix, pc, len, splitter, n, result, it, fresh, front,
                   back, nones, ovf>>

(***************************************************************************)
(* The two folds, digits.rs:61-74.  Iterator::fold calls next() until None *)
(* and DoubleEndedIterator::rfold calls next_back() until None.            *)
(***************************************************************************)

\* Mutant of fold: the closure is `acc + digit`.
RECURSIVE fold_add_only(_, _, _)
fold_add_only(self, acc, r) ==
    LET step == next(self)
    IN  IF step.item = None
        THEN acc
        ELSE LET sum == acc.value + step.item[1]
             IN  fold_add_only(step.self,
                               [value |-> Wrap(sum),
                                overflow |-> acc.overflow \/ Overflows(sum)],
                               r)

\* digits.rs:63: fold(T::zero(), |acc, digit| acc * radix + digit), with the
\* overflow of either unchecked operation recorded.
RECURSIVE fold(_, _, _)
fold(self, acc, r) ==
    LET step == next(self)
    IN  IF step.item = None
        THEN acc
        ELSE LET prod == acc.value * r
                 sum  == Wrap(prod) + step.item[1]
             IN  fold(step.self,
                      [value |-> Wrap(sum),
                       overflow |-> acc.overflow \/ Overflows(prod) \/ Overflows(sum)],
                      r)

\* Mutant of into_number: the fold multiplies by `splitter`.
into_number_by_splitter(self) ==
    fold(self, [value |-> 0, overflow |-> FALSE], self.splitter)

\* Mutant of into_number: the fold starts from T::one().
into_number_from_one(self) == fold(self, [value |-> 1, overflow |-> FALSE], self.radix)

\* digits.rs:61-64
into_number(self) == fold(self, [value |-> 0, overflow |-> FALSE], self.radix)

\* digits.rs:71-73: rfold(Some(T::zero()), |acc, digit| acc.and_then(...)).
RECURSIVE rfold(_, _, _)
rfold(self, acc, r) ==
    LET step == next_back(self)
    IN  IF step.item = None
        THEN acc
        ELSE rfold(step.self,
                   IF acc = None THEN None ELSE mul_add(acc[1], r, step.item[1]),
                   r)

\* digits.rs:69-74
into_reversed_number(self) == rfold(self, Some(0), self.radix)

\* A call of into_number(): `self` is moved in; `it` keeps the value moved.
CallIntoNumber ==
    /\ pc = "iter"
    /\ LET r == into_number(it)
       IN  /\ ret' = r.value
           /\ ovf' = (ovf \/ r.overflow)
    /\ lastOp' = "into_number"
    /\ pc' = "consumed"
    /\ UNCHANGED <<number, radix, len, splitter, n, result, it, fresh, front, back,
                   nones, queries>>

\* A call of into_reversed_number(): `self` is moved in.
CallIntoReversedNumber ==
    /\ pc = "iter"
    /\ ret' = into_reversed_number(it)
    /\ lastOp' = "into_reversed_number"
    /\ pc' = "consumed"
    /\ UNCHANGED <<number, radix, len, splitter, n, result, it, fresh, front, back,
                   nones, queries, ovf>>

\* A call of count(): `self` is moved in.
CallCount ==
    /\ pc = "iter"
    /\ ret' = count(it)
    /\ lastOp' = "count"
    /\ pc' = "consumed"
    /\ UNCHANGED <<number, radix, len, splitter, n, result, it, fresh, front, back,
                   nones, queries, ovf>>

\* A call of last(): `self` is moved in.
CallLast ==
    /\ pc = "iter"
    /\ ret' = last(it)
    /\ lastOp' = "last"
    /\ pc' = "consumed"
    /\ UNCHANGED <<number, radix, len, splitter, n, result, it, fresh, front, back,
                   nones, queries, ovf>>

Next ==
    \/ NewEntry
    \/ NewLoop
    \/ NewReturn
    \/ CallNext
    \/ CallNextBack
    \/ CallSizeHint
    \/ CallIntoNumber
    \/ CallIntoReversedNumber
    \/ CallCount
    \/ CallLast

Spec == Init /\ [][Next]_vars

\* new() alone: the call runs to its return (a sequential loop always takes
\* its next step).
NewNext ==
    \/ NewEntry
    \/ NewLoop
    \/ NewReturn

NewSpec == Init /\ [][NewNext]_vars /\ WF_vars(NewNext)

(***************************************************************************)
(* Reference definitions the properties are stated with.  None of them     *)
(* uses splitter or len: they are positional notation itself.              *)
(***************************************************************************)

RECURSIVE Pow(_, _)
Pow(b, k) == IF k = 0 THEN 1 ELSE b * Pow(b, k - 1)

Reverse(s) == [i \in 1..Len(s) |-> s[Len(s) + 1 - i]]

\* The base-r numeral of num, most significant digit first (r >= 2).
RECURSIVE BigEndian(_, _)
BigEndian(num, r) ==
    IF num < r THEN <<num>> ELSE Append(BigEndian(num \div r, r), num % r)

\* The value of the digit string ds (most significant first) in base r,
\* in the integers.
RECURSIVE Value(_, _)
Value(ds, r) ==
    IF ds = <<>> THEN 0
    ELSE Value(SubSeq(ds, 1, Len(ds) - 1), r) * r + ds[Len(ds)]

IsPrefix(p, s) == Len(p) <= Len(s) /\ p = SubSeq(s, 1, Len(p))
IsSuffix(p, s) == Len(p) <= Len(s) /\ p = SubSeq(s, Len(s) - Len(p) + 1, Len(s))

\* How often num can be divided by r before the quotient is below r.
RECURSIVE DivCount(_, _)
DivCount(num, r) == IF num < r THEN 0 ELSE 1 + DivCount(num \div r, r)

\* The digits of number in radix, and those no call has returned yet.
Digits == BigEndian(number, radix)
Remaining == SubSeq(Digits, Len(front) + 1, Len(Digits) - Len(back))

\* The list a caller collects by calling only next() until None.
RECURSIVE collect(_)
collect(self) ==
    LET step == next(self)
    IN  IF step.item = None THEN <<>> ELSE <<step.item[1]>> \o collect(step.self)

Constructed == pc \in {"iter", "consumed"}

(***************************************************************************)
(* Properties                                                              *)
(***************************************************************************)

\* C1: for every radix >= 2 and every number of T, new(number, radix) returns
\* Ok, and into_number() on the iterator it returned, before any extraction,
\* returns number.
C1_RoundTrip ==
    /\ (radix >= 2 /\ pc \notin {"new", "loop"}) => result = "Ok"
    /\ (pc = "consumed" /\ lastOp = "into_number" /\ front = <<>> /\ back = <<>>)
           => (it = fresh /\ ret = number)

C1_Witness ==
    /\ pc = "consumed" /\ lastOp = "into_number"
    /\ front = <<>> /\ back = <<>>
    /\ radix = 10 /\ number = 123 /\ ret = 123

\* C2: calling only next() on a fresh iterator returns the base-radix digits
\* of number most significant first -- each below radix, no leading zero
\* unless number is 0 (the single digit 0), their value being number -- and
\* None from then on.
C2_BigEndianNext ==
    (pc = "iter" /\ back = <<>>) =>
        /\ IsPrefix(front, Digits)
        /\ (it.len = 0) = (front = Digits)
        /\ \A i \in 1..Len(front) : front[i] \in 0..(radix - 1)
        /\ front # <<>> => (front[1] = 0 => (number = 0 /\ front = <<0>>))
        /\ it.len = 0 => Value(front, radix) = number
        /\ nones > 0 => front = Digits
        /\ lastOp = "next" =>
               ret = IF nones > 0 THEN None ELSE Some(front[Len(front)])

C2_Witness ==
    /\ pc = "iter" /\ back = <<>> /\ lastOp = "next"
    /\ number = 123 /\ radix = 10
    /\ front = <<1, 2, 3>> /\ ret = None

\* C3: the list obtained by calling only next_back() until None equals the
\* reverse of the list obtained by calling only next() until None on a fresh
\* iterator of the same number and radix.
C3_BackIsReverse ==
    (pc = "iter" /\ front = <<>> /\ nones > 0) => back = Reverse(collect(fresh))

C3_Witness ==
    /\ pc = "iter" /\ front = <<>> /\ nones > 0
    /\ number = 123 /\ radix = 10
    /\ back = <<3, 2, 1>>

\* C4: under every interleaving of next() and next_back(), the digits next()
\* returned are a prefix of the numeral and those next_back() returned,
\* reversed, a suffix; the two never overlap, and at exhaustion they make up
\* the whole numeral, each position returned once.
C4_Interleaving ==
    pc = "iter" =>
        /\ IsPrefix(front, Digits)
        /\ IsSuffix(Reverse(back), Digits)
        /\ Len(front) + Len(back) + it.len = Len(Digits)
        /\ (it.len = 0 \/ nones > 0) => front \o Reverse(back) = Digits

C4_Witness ==
    /\ pc = "iter" /\ it.len = 0
    /\ number = 123 /\ radix = 10
    /\ front = <<1, 2>> /\ back = <<3>>
    /\ lastOp = "next_back" /\ ret = None

\* C5: in every order of next()/next_back() calls, the calls returning
\* Some(digit) before the first None are as many as the len() of the fresh
\* iterator, and every extraction call from the first None on returns None.
C5_CountAndFused ==
    pc = "iter" =>
        /\ Len(front) + Len(back) <= size_hint(fresh)[1]
        /\ nones > 0 => Len(front) + Len(back) = size_hint(fresh)[1]
        /\ (nones = 0 /\ it.len = 0) => Len(front) + Len(back) = size_hint(fresh)[1]
        /\ (nones = 0 /\ lastOp \in {"next", "next_back"}) => ret # None
        /\ (nones > 0 /\ lastOp \in {"next", "next_back"}) => ret = None

C5_Witness ==
    /\ pc = "iter" /\ nones = 2 /\ lastOp = "next_back" /\ ret = None
    /\ Len(front) = 2 /\ Len(back) = 3 /\ size_hint(fresh)[1] = 5

\* C6: new(n, 0) returns Err(Radix0) and new(n, 1) returns Err(Radix1) for
\* every n, with no iterator produced; new(n, radix) with radix >= 2 never
\* returns an error and returns Ok.
C6_RadixErrors ==
    /\ (pc # "new" /\ radix = 0) => (pc = "err" /\ result = "Radix0" /\ it = NoIter)
    /\ (pc # "new" /\ radix = 1) => (pc = "err" /\ result = "Radix1" /\ it = NoIter)
    /\ radix >= 2 => (pc # "err" /\ result \in {"pending", "Ok"})
    /\ (radix >= 2 /\ pc \notin {"new", "loop"}) => (result = "Ok" /\ Constructed)
    /\ result = "Ok" <=> Constructed

C6_Witness == pc = "err" /\ result = "Radix1" /\ radix = 1 /\ number = 23

\* C7: into_reversed_number() in any reachable state returns Some(v), v being
\* the value of the remaining digits read in reverse, when v <= MaxT, and
\* None exactly when v > MaxT.
C7_ReversedChecked ==
    (pc = "consumed" /\ lastOp = "into_reversed_number") =>
        LET v == Value(Reverse(Remaining), radix)
        IN  ret = IF v <= MaxT THEN Some(v) ELSE None

C7_Witness ==
    /\ pc = "consumed" /\ lastOp = "into_reversed_number"
    /\ number = 109 /\ radix = 10 /\ Remaining = <<1, 0, 9>>
    /\ ret = None

\* C8: once len is 0, a call of next() or next_back() returns None and leaves
\* every field of the iterator as it was.
C8_ExhaustedFrame ==
    [][(pc = "iter" /\ it.len = 0 /\ lastOp' \in {"next", "next_back"})
           => (ret' = None /\ it' = it)]_vars

C8_Witness ==
    /\ pc = "iter" /\ it.len = 0 /\ nones = 2
    /\ lastOp = "next" /\ back # <<>> /\ front # <<>>

\* C9: size_hint() returns len as lower and as upper bound and changes no
\* field, and a query directly after a query returns the same value.
C9_SizeHintPure ==
    [][lastOp' = "size_hint"
           => /\ ret' = <<it.len, Some(it.len)>>
              /\ it' = it
              /\ lastOp = "size_hint" => ret' = ret]_vars

C9_Witness ==
    /\ pc = "iter" /\ lastOp = "size_hint" /\ queries = 2
    /\ front # <<>> /\ back # <<>> /\ ret = <<2, Some(2)>>

\* C10: the len of the iterator new() returns is 1 plus the number of times
\* number can be divided by radix before the quotient is below radix, that
\* is the k >= 1 with radix^(k-1) <= number < radix^k, or 1 when number is 0.
C10_FreshLen ==
    Constructed =>
        /\ fresh.len = 1 + DivCount(number, radix)
        /\ number < radix => fresh.len = 1
        /\ number < Pow(radix, fresh.len)
        /\ fresh.len > 1 => Pow(radix, fresh.len - 1) <= number
        /\ front = <<>> /\ back = <<>> => it.len = fresh.len

C10_Witness ==
    /\ pc = "iter" /\ front = <<>> /\ back = <<>>
    /\ number = 100 /\ radix = 10 /\ it.len = 3

\* C11: in any state reached by next()/next_back() calls, into_number()
\* returns the value of the digits not yet returned, read most significant
\* first, which is the field current; number on a fresh iterator and 0 on an
\* exhausted one.
C11_IntoNumberRemaining ==
    (pc = "consumed" /\ lastOp = "into_number") =>
        /\ ret = Value(Remaining, radix)
        /\ ret = it.current
        /\ it = fresh => ret = number
        /\ it.len = 0 => ret = 0

C11_Witness ==
    /\ pc = "consumed" /\ lastOp = "into_number"
    /\ number = 123 /\ radix = 10
    /\ front = <<1>> /\ back = <<3>> /\ ret = 2

\* C12: for every number <= MaxT and radix in 2..MaxT, in every reachable
\* state, no acc * radix and no acc * radix + digit computed by the fold of
\* into_number() exceeds MaxT.
C12_IntoNumberNoOverflow ==
    /\ pc = "iter" => ~into_number(it).overflow
    /\ (pc = "consumed" /\ lastOp = "into_number") => ~ovf

C12_Witness ==
    /\ pc = "consumed" /\ lastOp = "into_number"
    /\ number = MaxT /\ radix = 2 /\ front = <<>> /\ back = <<>>
    /\ ret = MaxT /\ ~ovf

\* C13: after a successful construction, whenever next() or next_back()
\* divides (len > 0) the divisor splitter is >= 1 and the divisor radix is
\* >= 2, and with len = 0 both return None.
C13_NoDivisionByZero ==
    pc = "iter" =>
        /\ it.len > 0 => (it.splitter >= 1 /\ it.radix >= 2)
        /\ it.len = 0 => (next(it).item = None /\ next_back(it).item = None)
        /\ lastOp \in {"next", "next_back"} => (ret = None \/ ret[1] \in T)

C13_Witness ==
    /\ pc = "iter" /\ lastOp = "next" /\ ret = Some(0)
    /\ number = 100 /\ radix = 10 /\ back = <<0>> /\ front = <<1, 0>>
    /\ it.len = 0

\* C14: in every state reached by any interleaving of next() and
\* next_back(), len > 0 implies splitter = radix^(len-1).
C14_SplitterInvariant ==
    (Constructed /\ it.len > 0) => it.splitter = Pow(it.radix, it.len - 1)

C14_Witness ==
    /\ pc = "iter" /\ lastOp = "next_back"
    /\ number = 123 /\ radix = 10 /\ front = <<>> /\ back = <<3>>
    /\ it.len = 2 /\ it.splitter = 10

\* C15: in every state reached by any interleaving of next() and
\* next_back(), 0 <= current < radix^len; so current = 0 once len = 0.
C15_CurrentFitsLen ==
    Constructed =>
        /\ 0 <= it.current
        /\ it.current < Pow(it.radix, it.len)
        /\ it.len = 0 => it.current = 0

C15_Witness ==
    /\ pc = "iter" /\ lastOp = "next_back"
    /\ number = 123 /\ radix = 10 /\ front = <<1>> /\ back = <<3>>
    /\ it.len = 1 /\ it.current = 2

\* The observable class of the iterator: fresh, partially consumed, exhausted.
Class(self) ==
    IF self.len = 0 THEN "exhausted"
    ELSE IF self.len = fresh.len THEN "fresh"
    ELSE "partial"

\* A step in which next() or next_back() returned a digit.
Extracted == front' # front \/ back' # back

\* C16 as stated: the only transitions between different classes are
\* fresh -> partially consumed and partially consumed -> exhausted, each by
\* one extraction decrementing len by one, and len never increases.
C16_Original ==
    [][pc = "iter" =>
          /\ it'.len <= it.len
          /\ Class(it') # Class(it) =>
                /\ Extracted
                /\ it'.len = it.len - 1
                /\ \/ (Class(it) = "fresh" /\ Class(it') = "partial")
                   \/ (Class(it) = "partial" /\ Class(it') = "exhausted")]_vars

\* C16 (amended): the transitions between different classes are
\* fresh -> partially consumed, partially consumed -> exhausted and, for an
\* iterator whose original length is 1, fresh -> exhausted; each is one
\* extraction decrementing len by one; every extraction decrements len by
\* one, no other call changes len, and len never increases.
C16_ClassTransitions ==
    [][pc = "iter" =>
          /\ it'.len <= it.len
          /\ Extracted => it'.len = it.len - 1
          /\ ~Extracted => it'.len = it.len
          /\ Class(it') # Class(it) =>
                /\ Extracted
                /\ \/ (Class(it) = "fresh" /\ Class(it') = "partial")
                   \/ (Class(it) = "partial" /\ Class(it') = "exhausted")
                   \/ (Class(it) = "fresh" /\ Class(it') = "exhausted"
                         /\ fresh.len = 1)]_vars

C16_Witness ==
    /\ pc = "iter" /\ number = 8 /\ radix = 10
    /\ fresh.len = 1 /\ front = <<8>> /\ Class(it) = "exhausted"

\* C17: for every number <= MaxT and radix in 2..MaxT the loop of new()
\* keeps n = number div splitter, every product splitter * radix it computes
\* is <= number, no product overflows, and the loop terminates with new()
\* returning.
C17_LoopSafeAndTerminates ==
    /\ [](pc = "loop" =>
             /\ n = number \div splitter
             /\ len > 1 => splitter <= number
             /\ loop_cond(n, radix) => splitter * radix <= number
             /\ ~ovf)
    /\ [](Constructed => ~ovf /\ fresh.splitter <= MaxT)
    /\ ((pc = "loop") ~> (pc = "iter"))
    /\ (radix >= 2 => <>(pc = "iter"))

C17_Witness ==
    /\ pc = "iter" /\ number = MaxT /\ radix = 2
    /\ len > 6 /\ splitter * radix > MaxT \div 2 /\ ~ovf

\* C18: in every reachable state last() returns what the final Some(digit)
\* of repeated next() calls from that state would be, the least significant
\* remaining digit current % radix, and None when len = 0.
C18_LastIsFinalNext ==
    (pc = "consumed" /\ lastOp = "last") =>
        LET rest == collect(it)
        IN  /\ it.len = 0 => (ret = None /\ rest = <<>>)
            /\ it.len > 0 => /\ rest # <<>>
                             /\ ret = Some(rest[Len(rest)])
                             /\ ret = Some(it.current % it.radix)
                             /\ ret = Some(Remaining[Len(Remaining)])

C18_Witness ==
    /\ pc = "consumed" /\ lastOp = "last"
    /\ number = 123 /\ radix = 10 /\ front = <<1>> /\ back = <<3>>
    /\ ret = Some(2)

\* C19: in every reachable state count() returns len, the number of
\* Some(digit) results repeated next() calls from that state would give.
C19_CountIsLen ==
    (pc = "consumed" /\ lastOp = "count") =>
        /\ ret = it.len
        /\ ret = Len(collect(it))
        /\ ret = Len(Remaining)

C19_Witness ==
    /\ pc = "consumed" /\ lastOp = "count"
    /\ number = 123 /\ radix = 10 /\ front = <<1>> /\ back = <<>>
    /\ ret = 2

====
